---------------------------- MODULE Spec2Model ----------------------------
(***************************************************************************)
(* IMXRT1060 hardware S/PDIF transmitter (src/src/spdifTx.cpp).            *)
(*                                                                         *)
(* Three agents share the state:                                           *)
(*   - SpdifTx::update, run by the audio graph at block rate, which queues *)
(*     a left/right pair of audio blocks under __disable_irq;              *)
(*   - SpdifTx::dmaISR, which preempts update, encodes the front blocks    *)
(*     into one half of fifoTx and rotates the queues;                     *)
(*   - the eDMA channel, which walks fifoTx as programmed by configureDMA  *)
(*     and raises the half/major interrupts.                               *)
(***************************************************************************)
EXTENDS Integers, Sequences, FiniteSets

(***************************************************************************)
(* Bounds of the model                                                     *)
(***************************************************************************)
\* number of update() calls explored
MaxCalls == 3
\* number of update() calls explored next to the request-by-request engine
MaxCallsDMA == 1
\* number of pool blocks whose samples the encoder specification encodes
EncBlocks == 512

(***************************************************************************)
(* Program constants                                                       *)
(***************************************************************************)
\* address of fifoTx[0]: DMAMEM (RAM2 starts at 0x20200000), 32-byte aligned
fifoTxAddr == 538968064
\* number of int32_t words of fifoTx
FifoWords == 512
\* bytes of one int32_t word of fifoTx
WordBytes == 4
\* sourceBufferSize handed to getTxOffset (bytes)
HalfBytes == 1024
\* the length handed to arm_dcache_flush_delete (bytes)
FlushBytes == 1024
\* the word offset getTxOffset returns for the upper half (0x0100)
UpperOffset == 256
\* samples per channel read by spdifInterleave
BlockSamples == 128
\* samples per channel handled by one iteration of the unrolled loop
Unroll == 4
\* eDMA.TCD->SOFF
SOFF == 4
\* DMA_TCD_NBYTES_MLOFFYES_NBYTES
NBYTES == 8
\* eDMA.TCD->SLAST
SLAST == -2048
\* eDMA.TCD->BITER_ELINKNO (and the reload value of CITER)
BITER == 256
\* the null pointer
nullptr == 0
\* &silentAudio, the static all-zero block
silentAudio == 1

VARIABLES
    leftAudioBuffer,   \* SpdifTx::leftAudioBuffer[2]
    rightAudioBuffer,  \* SpdifTx::rightAudioBuffer[2]
    leftAudio,         \* update(): local leftAudio
    rightAudio,        \* update(): local rightAudio
    pc,                \* update(): position
    primask,           \* TRUE between __disable_irq and __enable_irq
    irqPending,        \* the DMA channel's interrupt request flag
    SADDR,             \* eDMA.TCD->SADDR
    CITER,             \* eDMA.TCD->CITER
    isrPc,             \* dmaISR(): position
    txOffset,          \* dmaISR(): local txOffset (words)
    isrLeft,           \* dmaISR(): local leftAudio
    isrRight,          \* dmaISR(): local rightAudio
    isrI,              \* spdifInterleave(): loop variable i
    fifoTx,            \* the transmit buffer, 512 words
    wlog,              \* history: word indices written by the firing in progress
    calls,             \* history: number of update() calls started
    accepted,          \* history: blocks placed into a queue slot, in order
    encoded,           \* history: real blocks handed to spdifInterleave, in order
    released,          \* history: <<block, releaser>> of every release(), in order
    overruns,          \* history: <<left, right>> submissions that met a full queue
    received,          \* history: <<left, right>> receiveReadOnly gave the call in progress
    flushed,           \* history: <<byte address, byte count>> of the firing's cache flush
    notifies           \* history: update_all() calls of the firing

vars == <<leftAudioBuffer, rightAudioBuffer, leftAudio, rightAudio, pc, primask,
          irqPending, SADDR, CITER, isrPc, txOffset, isrLeft, isrRight, isrI,
          fifoTx, wlog, calls, accepted, encoded, released, overruns, received,
          flushed, notifies>>

queueVars == <<leftAudioBuffer, rightAudioBuffer>>
updateVars == <<leftAudio, rightAudio, pc, primask, calls, accepted, overruns, received>>
dmaVars == <<SADDR, CITER>>
isrVars == <<isrPc, txOffset, isrLeft, isrRight, isrI, fifoTx, wlog, encoded, flushed,
            notifies>>

(***************************************************************************)
(* Audio blocks.  The n-th update() call is offered the block 2n on the    *)
(* left input and 2n+1 on the right input (present or not).                *)
(***************************************************************************)
LeftBlockOf(n) == 2 * n
RightBlockOf(n) == 2 * n + 1
SubmissionOf(b) == b \div 2
IsLeft(b) == b % 2 = 0
IsReal(b) == b # nullptr /\ b # silentAudio

ToInt16(x) == ((x + 32768) % 65536) - 32768

\* audio_block_t::data[i] of block b; silentAudio is zeroed by init()
data(b, i) ==
    IF b = silentAudio THEN 0
    ELSE ToInt16((b - 2) * BlockSamples + i + 32512)

(***************************************************************************)
(* Construction: SpdifTx::SpdifTx -> init() -> configureDMA()              *)
(***************************************************************************)
EmptyQueue == [s \in 0..1 |-> nullptr]

Init ==
    /\ leftAudioBuffer = EmptyQueue
    /\ rightAudioBuffer = EmptyQueue
    /\ leftAudio = nullptr
    /\ rightAudio = nullptr
    /\ pc = "idle"
    /\ primask = FALSE
    /\ irqPending = FALSE
    /\ SADDR = fifoTxAddr
    /\ CITER = BITER
    /\ isrPc = "idle"
    /\ txOffset = 0
    /\ isrLeft = nullptr
    /\ isrRight = nullptr
    /\ isrI = 0
    /\ \E fill \in {0, -1} : fifoTx = [w \in 0..(FifoWords - 1) |-> fill]
    /\ wlog = <<>>
    /\ calls = 0
    /\ accepted = <<>>
    /\ encoded = <<>>
    /\ released = <<>>
    /\ overruns = <<0, 0>>
    /\ received = <<nullptr, nullptr>>
    /\ flushed = <<>>
    /\ notifies = 0

(***************************************************************************)
(* SpdifTx::update                                                         *)
(***************************************************************************)
\* lines 104-105: the two receiveReadOnly calls
UpdateReceive(limit) ==
    /\ pc = "idle"
    /\ isrPc = "idle"
    /\ calls < limit
    /\ \E lp \in BOOLEAN, rp \in BOOLEAN :
          /\ leftAudio' = IF lp THEN LeftBlockOf(calls + 1) ELSE nullptr
          /\ rightAudio' = IF rp THEN RightBlockOf(calls + 1) ELSE nullptr
    /\ received' = <<leftAudio', rightAudio'>>
    /\ calls' = calls + 1
    /\ pc' = "disable"
    /\ UNCHANGED <<queueVars, primask, accepted, overruns, irqPending, dmaVars, isrVars,
                   released>>

\* a test of the pair that lets one channel alone through (|| for &&)
UpdateDisableIrqEitherChannel ==
    /\ pc = "disable"
    /\ isrPc = "idle"
    /\ primask' = TRUE
    /\ pc' = IF leftAudio # nullptr \/ rightAudio # nullptr THEN "left" ELSE "enable"
    /\ UNCHANGED <<received, queueVars, leftAudio, rightAudio, calls, accepted, overruns,
                   irqPending, dmaVars, isrVars, released>>

\* an entry of update's critical section that leaves interrupts enabled (line 107 left out)
UpdateNoDisableIrq ==
    /\ pc = "disable"
    /\ isrPc = "idle"
    /\ primask' = FALSE
    /\ pc' = IF leftAudio # nullptr /\ rightAudio # nullptr THEN "left" ELSE "enable"
    /\ UNCHANGED <<received, queueVars, leftAudio, rightAudio, calls, accepted, overruns,
                   irqPending, dmaVars, isrVars, released>>

\* lines 107-109: __disable_irq, then the test of the pair
UpdateDisableIrq ==
    /\ pc = "disable"
    /\ isrPc = "idle"
    /\ primask' = TRUE
    /\ pc' = IF leftAudio # nullptr /\ rightAudio # nullptr THEN "left" ELSE "enable"
    /\ UNCHANGED <<received, queueVars, leftAudio, rightAudio, calls, accepted, overruns,
                   irqPending, dmaVars, isrVars, released>>

\* a left channel switcheroo that drops the newest block on overrun: the
\* queue is kept and the incoming block is left for release
UpdateLeftDropNewest ==
    /\ pc = "left"
    /\ isrPc = "idle"
    /\ IF leftAudioBuffer[0] = nullptr
         THEN /\ leftAudioBuffer' = [leftAudioBuffer EXCEPT ![0] = leftAudio]
              /\ leftAudio' = nullptr
         ELSE IF leftAudioBuffer[1] = nullptr
         THEN /\ leftAudioBuffer' = [leftAudioBuffer EXCEPT ![1] = leftAudio]
              /\ leftAudio' = nullptr
         ELSE UNCHANGED <<leftAudioBuffer, leftAudio>>
    /\ accepted' = Append(accepted, leftAudio)
    /\ overruns' = IF leftAudioBuffer[0] # nullptr /\ leftAudioBuffer[1] # nullptr
                     THEN <<overruns[1] + 1, overruns[2]>> ELSE overruns
    /\ pc' = "right"
    /\ UNCHANGED <<received, rightAudioBuffer, rightAudio, primask, calls, irqPending,
                   dmaVars, isrVars, released>>

\* a left channel switcheroo that on overrun hands slot 0 out for release
\* and leaves it in the queue (line 126 left out)
UpdateLeftEvictInPlace ==
    /\ pc = "left"
    /\ isrPc = "idle"
    /\ IF leftAudioBuffer[0] = nullptr
         THEN /\ leftAudioBuffer' = [leftAudioBuffer EXCEPT ![0] = leftAudio]
              /\ leftAudio' = nullptr
         ELSE IF leftAudioBuffer[1] = nullptr
         THEN /\ leftAudioBuffer' = [leftAudioBuffer EXCEPT ![1] = leftAudio]
              /\ leftAudio' = nullptr
         ELSE /\ leftAudioBuffer' = [leftAudioBuffer EXCEPT ![1] = leftAudio]
              /\ leftAudio' = leftAudioBuffer[0]
    /\ accepted' = Append(accepted, leftAudio)
    /\ overruns' = IF leftAudioBuffer[0] # nullptr /\ leftAudioBuffer[1] # nullptr
                     THEN <<overruns[1] + 1, overruns[2]>> ELSE overruns
    /\ pc' = "right"
    /\ UNCHANGED <<received, rightAudioBuffer, rightAudio, primask, calls, irqPending,
                   dmaVars, isrVars, released>>

\* lines 113-129: left channel switcheroo
UpdateLeft ==
    /\ pc = "left"
    /\ isrPc = "idle"
    /\ IF leftAudioBuffer[0] = nullptr
         THEN /\ leftAudioBuffer' = [leftAudioBuffer EXCEPT ![0] = leftAudio]
              /\ leftAudio' = nullptr
         ELSE IF leftAudioBuffer[1] = nullptr
         THEN /\ leftAudioBuffer' = [leftAudioBuffer EXCEPT ![1] = leftAudio]
              /\ leftAudio' = nullptr
         ELSE /\ leftAudioBuffer' = [leftAudioBuffer EXCEPT ![0] = leftAudioBuffer[1],
                                                            ![1] = leftAudio]
              /\ leftAudio' = leftAudioBuffer[0]
    /\ accepted' = Append(accepted, leftAudio)
    /\ overruns' = IF leftAudioBuffer[0] # nullptr /\ leftAudioBuffer[1] # nullptr
                     THEN <<overruns[1] + 1, overruns[2]>> ELSE overruns
    /\ pc' = "right"
    /\ UNCHANGED <<received, rightAudioBuffer, rightAudio, primask, calls, irqPending,
                   dmaVars, isrVars, released>>

\* a right channel switcheroo that puts the second block in front of the first
UpdateRightPushFront ==
    /\ pc = "right"
    /\ isrPc = "idle"
    /\ IF rightAudioBuffer[0] = nullptr
         THEN /\ rightAudioBuffer' = [rightAudioBuffer EXCEPT ![0] = rightAudio]
              /\ rightAudio' = nullptr
         ELSE IF rightAudioBuffer[1] = nullptr
         THEN /\ rightAudioBuffer' = [rightAudioBuffer EXCEPT ![0] = rightAudio,
                                                              ![1] = rightAudioBuffer[0]]
              /\ rightAudio' = nullptr
         ELSE /\ rightAudioBuffer' = [rightAudioBuffer EXCEPT ![0] = rightAudioBuffer[1],
                                                              ![1] = rightAudio]
              /\ rightAudio' = rightAudioBuffer[0]
    /\ accepted' = Append(accepted, rightAudio)
    /\ overruns' = IF rightAudioBuffer[0] # nullptr /\ rightAudioBuffer[1] # nullptr
                     THEN <<overruns[1], overruns[2] + 1>> ELSE overruns
    /\ pc' = "enable"
    /\ UNCHANGED <<received, leftAudioBuffer, leftAudio, primask, calls, irqPending,
                   dmaVars, isrVars, released>>

\* lines 132-148: right channel switcheroo
UpdateRight ==
    /\ pc = "right"
    /\ isrPc = "idle"
    /\ IF rightAudioBuffer[0] = nullptr
         THEN /\ rightAudioBuffer' = [rightAudioBuffer EXCEPT ![0] = rightAudio]
              /\ rightAudio' = nullptr
         ELSE IF rightAudioBuffer[1] = nullptr
         THEN /\ rightAudioBuffer' = [rightAudioBuffer EXCEPT ![1] = rightAudio]
              /\ rightAudio' = nullptr
         ELSE /\ rightAudioBuffer' = [rightAudioBuffer EXCEPT ![0] = rightAudioBuffer[1],
                                                              ![1] = rightAudio]
              /\ rightAudio' = rightAudioBuffer[0]
    /\ accepted' = Append(accepted, rightAudio)
    /\ overruns' = IF rightAudioBuffer[0] # nullptr /\ rightAudioBuffer[1] # nullptr
                     THEN <<overruns[1], overruns[2] + 1>> ELSE overruns
    /\ pc' = "enable"
    /\ UNCHANGED <<received, leftAudioBuffer, leftAudio, primask, calls, irqPending,
                   dmaVars, isrVars, released>>

\* line 151: __enable_irq
UpdateEnableIrq ==
    /\ pc = "enable"
    /\ isrPc = "idle"
    /\ primask' = FALSE
    /\ pc' = "release"
    /\ UNCHANGED <<received, queueVars, leftAudio, rightAudio, calls, accepted, overruns,
                   irqPending, dmaVars, isrVars, released>>

\* a release step that forgets the right block of the displaced pair
UpdateReleaseLeftOnly ==
    /\ pc = "release"
    /\ isrPc = "idle"
    /\ released' = IF leftAudio # nullptr /\ rightAudio # nullptr
                     THEN Append(released, <<leftAudio, "update">>)
                     ELSE released
    /\ leftAudio' = nullptr
    /\ rightAudio' = nullptr
    /\ received' = <<nullptr, nullptr>>
    /\ pc' = "idle"
    /\ UNCHANGED <<queueVars, primask, calls, accepted, overruns, irqPending, dmaVars,
                   isrVars>>

\* lines 153-158: release of the displaced pair, and return
UpdateRelease ==
    /\ pc = "release"
    /\ isrPc = "idle"
    /\ released' = IF leftAudio # nullptr /\ rightAudio # nullptr
                     THEN released \o <<<<leftAudio, "update">>, <<rightAudio, "update">>>>
                     ELSE released
    /\ leftAudio' = nullptr
    /\ rightAudio' = nullptr
    /\ received' = <<nullptr, nullptr>>
    /\ pc' = "idle"
    /\ UNCHANGED <<queueVars, primask, calls, accepted, overruns, irqPending, dmaVars,
                   isrVars>>

Update(limit) ==
    \/ UpdateReceive(limit)
    \/ UpdateDisableIrq
    \/ UpdateLeft
    \/ UpdateRight
    \/ UpdateEnableIrq
    \/ UpdateRelease

(***************************************************************************)
(* The eDMA channel, as programmed by configureDMA                         *)
(***************************************************************************)
\* DMA_TCD_ATTR_SSIZE(0b10): bytes per source read
SSIZE == 4

\* a channel without the half-complete interrupt (DMA_TCD_CSR_INTHALF left out)
TcdRequestNoIntHalf(t) ==
    IF t.citer - 1 = 0
      THEN [saddr |-> t.saddr + (NBYTES \div SSIZE) * SOFF + SLAST, citer |-> BITER, irq |-> TRUE]
      ELSE [saddr |-> t.saddr + (NBYTES \div SSIZE) * SOFF, citer |-> t.citer - 1,
            irq |-> t.irq]

\* one service request (minor loop) on the descriptor t; irq: an interrupt
\* request was raised (INTHALF at CITER = BITER/2, INTMAJOR at CITER = 0)
TcdRequest(t) ==
    IF t.citer - 1 = 0
      THEN [saddr |-> t.saddr + (NBYTES \div SSIZE) * SOFF + SLAST,
            citer |-> BITER,
            irq   |-> TRUE]
      ELSE [saddr |-> t.saddr + (NBYTES \div SSIZE) * SOFF,
            citer |-> t.citer - 1,
            irq   |-> t.irq \/ (t.citer - 1 = BITER \div 2)]

\* n service requests in a row (the first n \div 2, then the others)
TcdRequests(count, tcd) ==
    LET run[n \in Nat, t \in [saddr : Int, citer : Int, irq : BOOLEAN]] ==
            IF n = 0 THEN t
            ELSE IF n = 1 THEN TcdRequest(t)
            ELSE run[n - n \div 2, run[n \div 2, t]]
    IN  run[count, tcd]

Tcd == [saddr |-> SADDR, citer |-> CITER, irq |-> FALSE]

\* the peripheral's FIFO asks for one stereo pair: one service request.
\* The request that raises the next interrupt comes after the previous
\* firing has returned (the real-time budget of the ISR).
DmaRequest ==
    LET d == TcdRequest(Tcd)
    IN  /\ d.irq => (~irqPending /\ isrPc = "idle")
        /\ SADDR' = d.saddr
        /\ CITER' = d.citer
        /\ irqPending' = (irqPending \/ d.irq)
        /\ UNCHANGED <<queueVars, updateVars, isrVars, released>>

\* the engine runs through half a major loop (BITER/2 service requests),
\* whatever the software is doing
DmaHalfLoop ==
    LET d == TcdRequests(BITER \div 2, Tcd)
    IN  /\ SADDR' = d.saddr
        /\ CITER' = d.citer
        /\ irqPending' = (irqPending \/ d.irq)
        /\ UNCHANGED <<queueVars, updateVars, isrVars, released>>

(***************************************************************************)
(* SpdifTx::getTxOffset and SpdifTx::spdifInterleave                       *)
(***************************************************************************)
\* a half selection with the two offsets exchanged
getTxOffsetSameHalf(txSourceAddress, sourceBufferSize) ==
    IF SADDR < txSourceAddress + sourceBufferSize THEN 0 ELSE UpperOffset

\* a half selection that compares with <= instead of <
getTxOffsetInclusive(txSourceAddress, sourceBufferSize) ==
    IF SADDR <= txSourceAddress + sourceBufferSize THEN UpperOffset ELSE 0

\* line 169 (uint32_t arithmetic; the buffer does not wrap the address space)
getTxOffset(txSourceAddress, sourceBufferSize) ==
    IF SADDR < txSourceAddress + sourceBufferSize THEN UpperOffset ELSE 0

\* leftAudioData[i] << 8: the int16_t is promoted to int and shifted; the
\* result of a 16-bit value has 24 significant bits and fits the int32_t word
ShiftLeft8(x) == x * 256

\* an unrolled body whose last store repeats the index of the store before it
InterleaveStoresRepeatedIndex(i, l, r) ==
    << <<2 * i,     ShiftLeft8(data(l, i))>>,
       <<2 * i + 1, ShiftLeft8(data(r, i))>>,
       <<2 * i + 2, ShiftLeft8(data(l, i + 1))>>,
       <<2 * i + 3, ShiftLeft8(data(r, i + 1))>>,
       <<2 * i + 4, ShiftLeft8(data(l, i + 2))>>,
       <<2 * i + 5, ShiftLeft8(data(r, i + 2))>>,
       <<2 * i + 6, ShiftLeft8(data(l, i + 3))>>,
       <<2 * i + 6, ShiftLeft8(data(r, i + 3))>> >>

\* lines 189-199: the stores of the loop iteration at i, in program order,
\* as <<index into pTx, value>>
InterleaveStores(i, l, r) ==
    << <<2 * i,     ShiftLeft8(data(l, i))>>,
       <<2 * i + 1, ShiftLeft8(data(r, i))>>,
       <<2 * i + 2, ShiftLeft8(data(l, i + 1))>>,
       <<2 * i + 3, ShiftLeft8(data(r, i + 1))>>,
       <<2 * i + 4, ShiftLeft8(data(l, i + 2))>>,
       <<2 * i + 5, ShiftLeft8(data(r, i + 2))>>,
       <<2 * i + 6, ShiftLeft8(data(l, i + 3))>>,
       <<2 * i + 7, ShiftLeft8(data(r, i + 3))>> >>

\* fifoTx after the stores st through pTx = &fifoTx[0] + base
RECURSIVE StoreAll(_, _, _)
StoreAll(mem, base, st) ==
    IF st = <<>> THEN mem
    ELSE LET w == base + Head(st)[1]
             m == IF w \in DOMAIN mem THEN [mem EXCEPT ![w] = Head(st)[2]] ELSE mem
         IN  StoreAll(m, base, Tail(st))

StoreIndices(base, st) == [k \in 1..Len(st) |-> base + st[k][1]]

(***************************************************************************)
(* SpdifTx::dmaISR                                                         *)
(***************************************************************************)
\* line 71: entry of the handler and the read of the engine's SADDR
IsrEnter ==
    /\ isrPc = "idle"
    /\ irqPending
    /\ ~primask
    /\ txOffset' = getTxOffset(fifoTxAddr, HalfBytes)
    /\ isrPc' = "ack"
    /\ flushed' = <<>>
    /\ notifies' = 0
    /\ UNCHANGED <<queueVars, updateVars, dmaVars, irqPending, isrLeft, isrRight, isrI,
                   fifoTx, wlog, encoded, released>>

\* the blocks of a firing that are not the silence sentinel
RealOf(l, r) == SelectSeq(<<l, r>>, LAMBDA b : b # silentAudio)

\* lines 74-79: DMA_CINT, then the front blocks or silence
IsrAck ==
    /\ isrPc = "ack"
    /\ irqPending' = FALSE
    /\ isrLeft' = IF leftAudioBuffer[0] # nullptr THEN leftAudioBuffer[0] ELSE silentAudio
    /\ isrRight' = IF rightAudioBuffer[0] # nullptr THEN rightAudioBuffer[0] ELSE silentAudio
    /\ encoded' = encoded \o RealOf(isrLeft', isrRight')
    /\ isrI' = 0
    /\ wlog' = <<>>
    /\ isrPc' = "encode"
    /\ UNCHANGED <<flushed, notifies, queueVars, updateVars, dmaVars, txOffset, fifoTx,
                   released>>

\* lines 189-199: the loop body at i on the memory and the store history
InterleaveBody(i, mem, log, base, l, r) ==
    [mem |-> StoreAll(mem, base, InterleaveStores(i, l, r)),
     log |-> log \o StoreIndices(base, InterleaveStores(i, l, r))]

\* lines 187-200: the loop from i to its end
InterleaveLoop(mem, log, base, l, r) ==
    LET loop[i \in Nat, m \in [mem : [0..(FifoWords - 1) -> Int], log : Seq(Int)]] ==
            IF i < BlockSamples
              THEN loop[i + Unroll, InterleaveBody(i, m.mem, m.log, base, l, r)]
              ELSE m
    IN  loop[0, [mem |-> mem, log |-> log]]

\* lines 187-200: one iteration of the loop of spdifInterleave
IsrEncode ==
    /\ isrPc = "encode"
    /\ isrI < BlockSamples
    /\ fifoTx' = InterleaveBody(isrI, fifoTx, wlog, txOffset, isrLeft, isrRight).mem
    /\ wlog' = InterleaveBody(isrI, fifoTx, wlog, txOffset, isrLeft, isrRight).log
    /\ isrI' = isrI + Unroll
    /\ isrPc' = IF isrI + Unroll < BlockSamples THEN "encode" ELSE "flush"
    /\ UNCHANGED <<flushed, notifies, queueVars, updateVars, dmaVars, irqPending,
                   txOffset, isrLeft, isrRight, encoded, released>>

\* line 81: spdifInterleave from call to return (all iterations of the loop)
IsrInterleave ==
    /\ isrPc = "encode"
    /\ isrI = 0
    /\ fifoTx' = InterleaveLoop(fifoTx, wlog, txOffset, isrLeft, isrRight).mem
    /\ wlog' = InterleaveLoop(fifoTx, wlog, txOffset, isrLeft, isrRight).log
    /\ isrI' = BlockSamples
    /\ isrPc' = "flush"
    /\ UNCHANGED <<flushed, notifies, queueVars, updateVars, dmaVars, irqPending,
                   txOffset, isrLeft, isrRight, encoded, released>>

\* a flush of the whole transmit buffer from its base, whichever half was written
IsrFlushFromBufferBase ==
    /\ isrPc = "flush"
    /\ isrPc' = "release"
    /\ flushed' = <<fifoTxAddr, FlushBytes>>
    /\ UNCHANGED <<notifies, queueVars, updateVars, dmaVars, irqPending, txOffset, isrLeft,
                   isrRight, isrI, fifoTx, wlog, encoded, released>>

\* line 82: arm_dcache_flush_delete(txBaseAddress, 1024)
IsrFlush ==
    /\ isrPc = "flush"
    /\ isrPc' = "release"
    /\ flushed' = <<fifoTxAddr + WordBytes * txOffset, FlushBytes>>
    /\ UNCHANGED <<notifies, queueVars, updateVars, dmaVars, irqPending, txOffset,
                   isrLeft, isrRight, isrI, fifoTx, wlog, encoded, released>>

\* a rotation that does not clear slot 1 (lines 90 and 92 left out)
IsrReleaseNoClear ==
    /\ isrPc = "release"
    /\ IF isrLeft # silentAudio /\ isrRight # silentAudio
         THEN /\ released' = released \o <<<<isrLeft, "isr">>, <<isrRight, "isr">>>>
              /\ leftAudioBuffer' = [leftAudioBuffer EXCEPT ![0] = leftAudioBuffer[1]]
              /\ rightAudioBuffer' = [rightAudioBuffer EXCEPT ![0] = rightAudioBuffer[1]]
         ELSE UNCHANGED <<released, queueVars>>
    /\ isrPc' = "notify"
    /\ UNCHANGED <<flushed, notifies, updateVars, dmaVars, irqPending, txOffset, isrLeft,
                   isrRight, isrI, fifoTx, wlog, encoded>>

\* a release that does not test for the silence sentinel (line 84 left out)
IsrReleaseUnconditional ==
    /\ isrPc = "release"
    /\ released' = released \o <<<<isrLeft, "isr">>, <<isrRight, "isr">>>>
    /\ leftAudioBuffer' = [leftAudioBuffer EXCEPT ![0] = leftAudioBuffer[1],
                                                 ![1] = nullptr]
    /\ rightAudioBuffer' = [rightAudioBuffer EXCEPT ![0] = rightAudioBuffer[1],
                                                   ![1] = nullptr]
    /\ isrPc' = "notify"
    /\ UNCHANGED <<flushed, notifies, updateVars, dmaVars, irqPending, txOffset, isrLeft,
                   isrRight, isrI, fifoTx, wlog, encoded>>

\* a release that asks for one real block only (|| for && at line 84)
IsrReleaseEitherReal ==
    /\ isrPc = "release"
    /\ IF isrLeft # silentAudio \/ isrRight # silentAudio
         THEN /\ released' = released \o <<<<isrLeft, "isr">>, <<isrRight, "isr">>>>
              /\ leftAudioBuffer' = [leftAudioBuffer EXCEPT ![0] = leftAudioBuffer[1],
                                                           ![1] = nullptr]
              /\ rightAudioBuffer' = [rightAudioBuffer EXCEPT ![0] = rightAudioBuffer[1],
                                                             ![1] = nullptr]
         ELSE UNCHANGED <<released, queueVars>>
    /\ isrPc' = "notify"
    /\ UNCHANGED <<flushed, notifies, updateVars, dmaVars, irqPending, txOffset, isrLeft,
                   isrRight, isrI, fifoTx, wlog, encoded>>

\* a rotation that empties slot 0 and leaves slot 1 in place (lines 89 and 91 left out,
\* slot 0 cleared in place of slot 1)
IsrReleaseNoShift ==
    /\ isrPc = "release"
    /\ IF isrLeft # silentAudio /\ isrRight # silentAudio
         THEN /\ released' = released \o <<<<isrLeft, "isr">>, <<isrRight, "isr">>>>
              /\ leftAudioBuffer' = [leftAudioBuffer EXCEPT ![0] = nullptr]
              /\ rightAudioBuffer' = [rightAudioBuffer EXCEPT ![0] = nullptr]
         ELSE UNCHANGED <<released, queueVars>>
    /\ isrPc' = "notify"
    /\ UNCHANGED <<flushed, notifies, updateVars, dmaVars, irqPending, txOffset, isrLeft,
                   isrRight, isrI, fifoTx, wlog, encoded>>

\* lines 84-93: release and rotation when both blocks are real
IsrRelease ==
    /\ isrPc = "release"
    /\ IF isrLeft # silentAudio /\ isrRight # silentAudio
         THEN /\ released' = released \o <<<<isrLeft, "isr">>, <<isrRight, "isr">>>>
              /\ leftAudioBuffer' = [leftAudioBuffer EXCEPT ![0] = leftAudioBuffer[1],
                                                           ![1] = nullptr]
              /\ rightAudioBuffer' = [rightAudioBuffer EXCEPT ![0] = rightAudioBuffer[1],
                                                             ![1] = nullptr]
         ELSE UNCHANGED <<released, queueVars>>
    /\ isrPc' = "notify"
    /\ UNCHANGED <<flushed, notifies, updateVars, dmaVars, irqPending, txOffset, isrLeft,
                   isrRight, isrI, fifoTx, wlog, encoded>>

\* a return that calls update_all() only after a firing on real blocks
IsrNotifyUnlessSilent ==
    /\ isrPc = "notify"
    /\ isrPc' = "idle"
    /\ isrLeft' = nullptr
    /\ isrRight' = nullptr
    /\ isrI' = 0
    /\ wlog' = <<>>
    /\ notifies' = IF isrLeft # silentAudio /\ isrRight # silentAudio
                     THEN notifies + 1 ELSE notifies
    /\ UNCHANGED <<flushed, queueVars, updateVars, dmaVars, irqPending, txOffset, fifoTx,
                   encoded, released>>

\* line 95: update_all(), and return
IsrNotify ==
    /\ isrPc = "notify"
    /\ isrPc' = "idle"
    /\ isrLeft' = nullptr
    /\ isrRight' = nullptr
    /\ isrI' = 0
    /\ wlog' = <<>>
    /\ notifies' = notifies + 1
    /\ UNCHANGED <<flushed, queueVars, updateVars, dmaVars, irqPending, txOffset, fifoTx,
                   encoded, released>>

\* the handler, spdifInterleave taken as one step
dmaISR ==
    \/ IsrEnter
    \/ IsrAck
    \/ IsrInterleave
    \/ IsrFlush
    \/ IsrRelease
    \/ IsrNotify

\* the handler, spdifInterleave taken iteration by iteration
dmaISRLoop ==
    \/ IsrEnter
    \/ IsrAck
    \/ IsrEncode
    \/ IsrFlush
    \/ IsrRelease
    \/ IsrNotify

(***************************************************************************)
(* Specifications                                                          *)
(***************************************************************************)
\* update and dmaISR in every interleaving, the engine by half loops
Next == Update(MaxCalls) \/ dmaISR \/ DmaHalfLoop

Spec == Init /\ [][Next]_vars

\* update() from __disable_irq to its return: the processor keeps executing it
UpdateRun ==
    \/ UpdateDisableIrq
    \/ UpdateLeft
    \/ UpdateRight
    \/ UpdateEnableIrq
    \/ UpdateRelease

\* dmaISR() without the call of spdifInterleave: a pending interrupt that stays
\* enabled is taken, and the handler keeps executing
IsrRun ==
    \/ IsrEnter
    \/ IsrAck
    \/ IsrFlush
    \/ IsrRelease
    \/ IsrNotify

\* line 81: the call of spdifInterleave returns (the loop at line 187 is bounded);
\* the step of IsrInterleave, told by the position of the handler
InterleaveReturns == isrPc = "encode" /\ isrPc' = "flush"

\* the steps of Spec, with the engine serving requests for ever and the processor
\* executing a started firing or update() call to its return: the handler
\* preempts update, and update goes on whenever no firing is in progress (a
\* firing is short against the time between two interrupts), hence SF
SpecLive ==
    /\ Init
    /\ [][Next]_vars
    /\ WF_vars(DmaHalfLoop)
    /\ WF_vars(IsrRun)
    /\ WF_isrPc(InterleaveReturns)
    /\ SF_vars(UpdateRun)

\* the engine request by request, against dmaISR and update
NextDMA == Update(MaxCallsDMA) \/ dmaISRLoop \/ DmaRequest

SpecDMA == Init /\ [][NextDMA]_vars

\* the encoder on every sample value: the state after k update() calls of
\* which only the last delivered a pair, and half a major loop of the engine
InitEnc ==
    \E k \in 1..(EncBlocks \div 2) :
        /\ leftAudioBuffer = [s \in 0..1 |-> IF s = 0 THEN LeftBlockOf(k) ELSE nullptr]
        /\ rightAudioBuffer = [s \in 0..1 |-> IF s = 0 THEN RightBlockOf(k) ELSE nullptr]
        /\ leftAudio = nullptr
        /\ rightAudio = nullptr
        /\ pc = "idle"
        /\ primask = FALSE
        /\ irqPending = TRUE
        /\ SADDR = TcdRequests(BITER \div 2, [saddr |-> fifoTxAddr, citer |-> BITER, irq |-> FALSE]).saddr
        /\ CITER = TcdRequests(BITER \div 2, [saddr |-> fifoTxAddr, citer |-> BITER, irq |-> FALSE]).citer
        /\ isrPc = "idle"
        /\ txOffset = 0
        /\ isrLeft = nullptr
        /\ isrRight = nullptr
        /\ isrI = 0
        /\ \E fill \in {0, -1} : fifoTx = [w \in 0..(FifoWords - 1) |-> fill]
        /\ wlog = <<>>
        /\ calls = k
        /\ accepted = <<LeftBlockOf(k), RightBlockOf(k)>>
        /\ encoded = <<>>
        /\ released = <<>>
        /\ overruns = <<0, 0>>
        /\ received = <<nullptr, nullptr>>
        /\ flushed = <<>>
        /\ notifies = 0

NextEnc == dmaISRLoop

SpecEnc == InitEnc /\ [][NextEnc]_vars

\* the handler as a function of the queues it reads: one firing on each
\* filling of the two queues, the channels filled independently of each other
InitIsr ==
    \E lq \in 0..2, rq \in 0..2 :
        /\ leftAudioBuffer = [s \in 0..1 |-> IF s < lq THEN LeftBlockOf(s + 1) ELSE nullptr]
        /\ rightAudioBuffer = [s \in 0..1 |-> IF s < rq THEN RightBlockOf(s + 1) ELSE nullptr]
        /\ leftAudio = nullptr
        /\ rightAudio = nullptr
        /\ pc = "idle"
        /\ primask = FALSE
        /\ irqPending = TRUE
        /\ SADDR = TcdRequests(BITER \div 2, [saddr |-> fifoTxAddr, citer |-> BITER, irq |-> FALSE]).saddr
        /\ CITER = TcdRequests(BITER \div 2, [saddr |-> fifoTxAddr, citer |-> BITER, irq |-> FALSE]).citer
        /\ isrPc = "idle"
        /\ txOffset = 0
        /\ isrLeft = nullptr
        /\ isrRight = nullptr
        /\ isrI = 0
        /\ \E fill \in {0, -1} : fifoTx = [w \in 0..(FifoWords - 1) |-> fill]
        /\ wlog = <<>>
        /\ calls = 2
        /\ accepted = SelectSeq(<<LeftBlockOf(1), RightBlockOf(1), LeftBlockOf(2), RightBlockOf(2)>>,
                                LAMBDA b : \E s \in 0..1 : b \in {leftAudioBuffer[s], rightAudioBuffer[s]})
        /\ encoded = <<>>
        /\ released = <<>>
        /\ overruns = <<0, 0>>
        /\ received = <<nullptr, nullptr>>
        /\ flushed = <<>>
        /\ notifies = 0

NextIsr == dmaISR

SpecIsr == InitIsr /\ [][NextIsr]_vars

(***************************************************************************)
(* Vocabulary of the properties                                            *)
(***************************************************************************)
Slots == 0..1
Occupied(q) == Cardinality({s \in Slots : q[s] # nullptr})
InQueue(q) == {q[s] : s \in Slots} \ {nullptr}
Full(q) == q[0] # nullptr /\ q[1] # nullptr
Empty(q) == q[0] = nullptr /\ q[1] = nullptr

ReleasedBlocks == [k \in 1..Len(released) |-> released[k][1]]
ReleasedSet == {released[k][1] : k \in 1..Len(released)}
\* the releases made by who ("update" or "isr") of the left / of the right channel
ReleasesOf(who, left) ==
    {k \in 1..Len(released) : released[k][2] = who /\ IsLeft(released[k][1]) = left}
AcceptedSet(left) == {accepted[k] : k \in {j \in 1..Len(accepted) : IsLeft(accepted[j]) = left}}

\* the word window at offset off holds the encoding of the blocks l and r
Encodes(mem, off, l, r) ==
    \A k \in 0..(BlockSamples - 1) :
        /\ mem[off + 2 * k] = data(l, k) * 256
        /\ mem[off + 2 * k + 1] = data(r, k) * 256

(***************************************************************************)
(* C1: a channel queue never holds more than 2 blocks, and every           *)
(* submission of a complete pair that meets a full channel queue makes     *)
(* update release exactly one block of that channel: once update has       *)
(* returned, the releases made by update on a channel are as many as the   *)
(* submissions that met it full, every accepted block is either still      *)
(* queued or released, and no block was released twice.                    *)
(***************************************************************************)
C1_QueueBoundOneEvictionPerOverrun ==
    /\ Occupied(leftAudioBuffer) <= 2
    /\ Occupied(rightAudioBuffer) <= 2
    /\ pc = "idle" =>
         /\ Cardinality(ReleasesOf("update", TRUE)) = overruns[1]
         /\ Cardinality(ReleasesOf("update", FALSE)) = overruns[2]
         /\ AcceptedSet(TRUE) \ ReleasedSet = InQueue(leftAudioBuffer)
         /\ AcceptedSet(FALSE) \ ReleasedSet = InQueue(rightAudioBuffer)
         /\ Cardinality(ReleasedSet) = Len(released)

C1_Witness ==
    /\ pc = "idle"
    /\ overruns = <<1, 1>>
    /\ Cardinality(ReleasesOf("update", TRUE)) = 1
    /\ Cardinality(ReleasesOf("update", FALSE)) = 1
    /\ Full(leftAudioBuffer)
    /\ Full(rightAudioBuffer)

(***************************************************************************)
(* C2: overrun drops the oldest pair.  A submission that meets a full      *)
(* queue moves slot 1 to slot 0, puts the new block in slot 1 and keeps    *)
(* the former slot 0 block for release; release is called with interrupts  *)
(* enabled again, on exactly that pair; and after update(L1,R1),           *)
(* update(L2,R2), update(L3,R3) with no block consumed by a firing the     *)
(* queues are (L2,R2),(L3,R3) and exactly L1, R1 have been released.       *)
(***************************************************************************)
C2_Scenario ==
    (pc = "idle" /\ isrPc = "idle" /\ calls = 3 /\ Len(accepted) = 6 /\ encoded = <<>>) =>
        /\ leftAudioBuffer = [s \in Slots |-> IF s = 0 THEN LeftBlockOf(2) ELSE LeftBlockOf(3)]
        /\ rightAudioBuffer = [s \in Slots |-> IF s = 0 THEN RightBlockOf(2) ELSE RightBlockOf(3)]
        /\ released = << <<LeftBlockOf(1), "update">>, <<RightBlockOf(1), "update">> >>

C2_DropOldest ==
    /\ [][(pc = "left" /\ pc' = "right" /\ Full(leftAudioBuffer)) =>
            /\ leftAudioBuffer'[0] = leftAudioBuffer[1]
            /\ leftAudioBuffer'[1] = leftAudio
            /\ leftAudio' = leftAudioBuffer[0]]_vars
    /\ [][(pc = "right" /\ pc' = "enable" /\ Full(rightAudioBuffer)) =>
            /\ rightAudioBuffer'[0] = rightAudioBuffer[1]
            /\ rightAudioBuffer'[1] = rightAudio
            /\ rightAudio' = rightAudioBuffer[0]]_vars
    /\ [][(pc # "idle" /\ released' # released /\ isrPc = "idle") =>
            /\ pc = "release"
            /\ ~primask
            /\ released' = released \o << <<leftAudio, "update">>, <<rightAudio, "update">> >>
            /\ leftAudio \notin InQueue(leftAudioBuffer)
            /\ rightAudio \notin InQueue(rightAudioBuffer)]_vars
    /\ [][primask => released' = released]_vars
    /\ []C2_Scenario

C2_Witness ==
    /\ pc = "idle"
    /\ calls = 3
    /\ encoded = <<>>
    /\ leftAudioBuffer[0] = LeftBlockOf(2)
    /\ leftAudioBuffer[1] = LeftBlockOf(3)
    /\ rightAudioBuffer[0] = RightBlockOf(2)
    /\ rightAudioBuffer[1] = RightBlockOf(3)
    /\ released = << <<LeftBlockOf(1), "update">>, <<RightBlockOf(1), "update">> >>

(***************************************************************************)
(* C3: a firing that finds a real block in slot 0 of both queues encodes   *)
(* exactly those two blocks into its half of fifoTx, releases exactly      *)
(* those two, and rotates each queue by one: slot 0 takes slot 1, slot 1   *)
(* becomes empty.  After update(L1,R1), update(L2,R2) and one firing with  *)
(* real blocks the queues are (L2,R2),empty and only L1, R1 are released.  *)
(***************************************************************************)
C3_Scenario ==
    (pc = "idle" /\ isrPc = "idle" /\ calls = 2 /\ Len(accepted) = 4 /\ Len(encoded) = 2) =>
        /\ leftAudioBuffer = [s \in Slots |-> IF s = 0 THEN LeftBlockOf(2) ELSE nullptr]
        /\ rightAudioBuffer = [s \in Slots |-> IF s = 0 THEN RightBlockOf(2) ELSE nullptr]
        /\ encoded = <<LeftBlockOf(1), RightBlockOf(1)>>
        /\ released = << <<LeftBlockOf(1), "isr">>, <<RightBlockOf(1), "isr">> >>

C3_FiringReleasesAndRotates ==
    /\ [][(isrPc = "release" /\ isrPc' = "notify"
           /\ leftAudioBuffer[0] # nullptr /\ rightAudioBuffer[0] # nullptr) =>
            /\ Encodes(fifoTx, txOffset, leftAudioBuffer[0], rightAudioBuffer[0])
            /\ released' = released \o << <<leftAudioBuffer[0], "isr">>,
                                          <<rightAudioBuffer[0], "isr">> >>
            /\ leftAudioBuffer' = [s \in Slots |-> IF s = 0 THEN leftAudioBuffer[1] ELSE nullptr]
            /\ rightAudioBuffer' = [s \in Slots |-> IF s = 0 THEN rightAudioBuffer[1] ELSE nullptr]]_vars
    /\ [](isrPc \in {"encode", "flush", "release"} =>
            /\ leftAudioBuffer[0] # nullptr => isrLeft = leftAudioBuffer[0]
            /\ rightAudioBuffer[0] # nullptr => isrRight = rightAudioBuffer[0])
    /\ []C3_Scenario

C3_Witness ==
    /\ isrPc = "notify"
    /\ isrLeft = LeftBlockOf(1)
    /\ isrRight = RightBlockOf(1)
    /\ leftAudioBuffer[0] = LeftBlockOf(2)
    /\ rightAudioBuffer[0] = RightBlockOf(2)
    /\ leftAudioBuffer[1] = nullptr
    /\ rightAudioBuffer[1] = nullptr
    /\ released = << <<LeftBlockOf(1), "isr">>, <<RightBlockOf(1), "isr">> >>
    /\ Encodes(fifoTx, txOffset, LeftBlockOf(1), RightBlockOf(1))

(***************************************************************************)
(* C4: a firing that finds slot 0 of a channel empty encodes silentAudio   *)
(* for that channel; silentAudio (and the null pointer) is never passed to *)
(* release; and a firing that finds both queues empty writes zeros for     *)
(* both channels, releases nothing and leaves the queues empty.            *)
(***************************************************************************)
C4_SilenceEncodedNeverReleased ==
    /\ [](isrPc \in {"encode", "flush", "release"} =>
            /\ leftAudioBuffer[0] = nullptr => isrLeft = silentAudio
            /\ rightAudioBuffer[0] = nullptr => isrRight = silentAudio)
    /\ [](silentAudio \notin ReleasedSet /\ nullptr \notin ReleasedSet)
    /\ []((isrPc \in {"flush", "release"} /\ Empty(leftAudioBuffer) /\ Empty(rightAudioBuffer)) =>
            \A k \in 0..(2 * BlockSamples - 1) : fifoTx[txOffset + k] = 0)
    /\ [][(isrPc # "idle" /\ Empty(leftAudioBuffer) /\ Empty(rightAudioBuffer)) =>
            /\ released' = released
            /\ leftAudioBuffer' = leftAudioBuffer
            /\ rightAudioBuffer' = rightAudioBuffer]_vars

C4_Witness ==
    /\ isrPc = "notify"
    /\ isrLeft = silentAudio
    /\ isrRight = silentAudio
    /\ Empty(leftAudioBuffer)
    /\ Empty(rightAudioBuffer)
    /\ Len(released) = 2
    /\ \A k \in 0..(2 * BlockSamples - 1) : fifoTx[txOffset + k] = 0
    /\ \E k \in 0..(FifoWords - 1) : fifoTx[k] > 0

(***************************************************************************)
(* Halves of the circular buffer                                           *)
(***************************************************************************)
\* the half (0 or 1) of fifoTx that holds the byte address a
HalfOfAddress(a) == (a - fifoTxAddr) \div HalfBytes
\* the half (0 or 1) of fifoTx that holds the word index w
HalfOfWord(w) == w \div UpperOffset
InFirstHalf(a) == fifoTxAddr <= a /\ a < fifoTxAddr + HalfBytes
InSecondHalf(a) == fifoTxAddr + HalfBytes <= a /\ a < fifoTxAddr + 2 * HalfBytes
\* the step of dmaISR that calls getTxOffset
IsrEnterStep == isrPc = "idle" /\ isrPc' = "ack"

ShiftRight8(x) == x \div 256

Window == {txOffset + k : k \in 0..(2 * BlockSamples - 1)}

C8_InterleaveExactAndInvertible ==
    /\ isrPc = "encode" =>
         /\ Len(wlog) = 2 * isrI
         /\ \A k \in 1..Len(wlog) : wlog[k] = txOffset + k - 1
    /\ isrPc = "flush" =>
         /\ Len(wlog) = 2 * BlockSamples
         /\ {wlog[k] : k \in 1..Len(wlog)} = Window
         /\ \A i \in 0..(BlockSamples - 1) :
              /\ data(isrLeft, i) \in -32768..32767
              /\ data(isrRight, i) \in -32768..32767
              /\ fifoTx[txOffset + 2 * i] = data(isrLeft, i) * 256
              /\ fifoTx[txOffset + 2 * i + 1] = data(isrRight, i) * 256
              /\ fifoTx[txOffset + 2 * i] % 256 = 0
              /\ fifoTx[txOffset + 2 * i + 1] % 256 = 0
              /\ ShiftRight8(fifoTx[txOffset + 2 * i]) = data(isrLeft, i)
              /\ ShiftRight8(fifoTx[txOffset + 2 * i + 1]) = data(isrRight, i)
         /\ \A w \in (0..(FifoWords - 1)) \ Window : fifoTx[w] \in {0, -1}

\* the block that holds the most negative sample, encoded
C8_Witness ==
    /\ isrPc = "flush"
    /\ IsReal(isrLeft)
    /\ IsReal(isrRight)
    /\ data(isrLeft, 0) = -32768
    /\ fifoTx[txOffset] = -8388608
    /\ ShiftRight8(fifoTx[txOffset]) = -32768
    /\ fifoTx[txOffset + 1] = -32640 * 256
    /\ Len(wlog) = 2 * BlockSamples

(***************************************************************************)
(* C9: per channel, the real blocks encoded by the successive firings are  *)
(* accepted blocks, in the order of their acceptance and each at most      *)
(* once; an accepted block that was not encoded is still queued, or was    *)
(* displaced by an overrun (released by update, or held by it for          *)
(* release).                                                               *)
(***************************************************************************)
EncodedOf(left) == SelectSeq(encoded, LAMBDA b : IsLeft(b) = left)
AcceptedOf(left) == SelectSeq(accepted, LAMBDA b : IsLeft(b) = left)
PositionIn(seq, b) == CHOOSE k \in 1..Len(seq) : seq[k] = b
QueueOf(left) == IF left THEN leftAudioBuffer ELSE rightAudioBuffer
UpdateReleased == {released[k][1] : k \in {j \in 1..Len(released) : released[j][2] = "update"}}

C9_EncodedInAcceptanceOrder ==
    \A ch \in BOOLEAN :
        /\ \A k \in 1..Len(EncodedOf(ch)) :
              \E j \in 1..Len(AcceptedOf(ch)) : AcceptedOf(ch)[j] = EncodedOf(ch)[k]
        /\ \A k1, k2 \in 1..Len(EncodedOf(ch)) :
              k1 < k2 => PositionIn(AcceptedOf(ch), EncodedOf(ch)[k1])
                           < PositionIn(AcceptedOf(ch), EncodedOf(ch)[k2])
        /\ \A j1, j2 \in 1..Len(AcceptedOf(ch)) :
              j1 # j2 => AcceptedOf(ch)[j1] # AcceptedOf(ch)[j2]
        /\ \A j \in 1..Len(AcceptedOf(ch)) :
              \/ \E k \in 1..Len(EncodedOf(ch)) : EncodedOf(ch)[k] = AcceptedOf(ch)[j]
              \/ AcceptedOf(ch)[j] \in InQueue(QueueOf(ch))
              \/ AcceptedOf(ch)[j] \in UpdateReleased
              \/ pc \in {"right", "enable", "release"}
                   /\ AcceptedOf(ch)[j] \in {leftAudio, rightAudio}

\* the first pair displaced by an overrun, the two later pairs encoded in turn
C9_Witness ==
    /\ accepted = <<LeftBlockOf(1), RightBlockOf(1), LeftBlockOf(2), RightBlockOf(2),
                    LeftBlockOf(3), RightBlockOf(3)>>
    /\ encoded = <<LeftBlockOf(2), RightBlockOf(2), LeftBlockOf(3), RightBlockOf(3)>>
    /\ UpdateReleased = {LeftBlockOf(1), RightBlockOf(1)}

(***************************************************************************)
(* C10: left and right advance in lockstep.  Whenever the ISR can run      *)
(* (outside the critical section of update) slot i of the left queue is    *)
(* occupied iff slot i of the right queue is, and the two blocks of a slot *)
(* come from the same update call; so a firing encodes either silence on   *)
(* both channels or the left and right block of one submission.            *)
(***************************************************************************)
SamePair(l, r) == IsLeft(l) /\ ~IsLeft(r) /\ SubmissionOf(l) = SubmissionOf(r)

Lockstep ==
    \A s \in Slots :
        /\ leftAudioBuffer[s] = nullptr <=> rightAudioBuffer[s] = nullptr
        /\ leftAudioBuffer[s] # nullptr => SamePair(leftAudioBuffer[s], rightAudioBuffer[s])

C10_Lockstep ==
    /\ ~primask => Lockstep
    /\ isrPc \in {"encode", "flush", "release", "notify"} =>
         /\ isrLeft = silentAudio <=> isrRight = silentAudio
         /\ isrLeft # silentAudio => SamePair(isrLeft, isrRight)

\* a firing on the second pair of a full queue
C10_Witness ==
    /\ isrPc = "flush"
    /\ isrLeft = LeftBlockOf(2)
    /\ isrRight = RightBlockOf(2)
    /\ leftAudioBuffer[1] = LeftBlockOf(3)
    /\ rightAudioBuffer[1] = RightBlockOf(3)
    /\ pc = "release"

(***************************************************************************)
(* C11: a partial delivery is rejected.  In an update() call to which      *)
(* receiveReadOnly gave a block for one channel only, no step of update,   *)
(* from the receive to the return, changes a slot of either channel queue  *)
(* or accepts a block.                                                     *)
(***************************************************************************)
OneChannelOnly(pair) == (pair[1] = nullptr) # (pair[2] = nullptr)

\* a step taken by update()
UpdateStep == pc' # pc

C11_PartialDeliveryKeepsQueues ==
    [][(UpdateStep /\ (OneChannelOnly(received) \/ OneChannelOnly(received'))) =>
         /\ leftAudioBuffer' = leftAudioBuffer
         /\ rightAudioBuffer' = rightAudioBuffer
         /\ accepted' = accepted]_vars

\* a lone right block offered to full queues, update about to return
C11_Witness ==
    /\ pc = "release"
    /\ received = <<nullptr, RightBlockOf(3)>>
    /\ leftAudioBuffer = [s \in Slots |-> IF s = 0 THEN LeftBlockOf(1) ELSE LeftBlockOf(2)]
    /\ rightAudioBuffer = [s \in Slots |-> IF s = 0 THEN RightBlockOf(1) ELSE RightBlockOf(2)]

(***************************************************************************)
(* C12: a firing that finds a real block at the front of one channel queue *)
(* and an empty front slot on the other changes no slot of either queue    *)
(* (no rotation) and releases no block, at any of its steps.  The handler  *)
(* is taken on every filling of the two queues, the channels independent   *)
(* of each other: from the empty queues of init() the two fronts are       *)
(* always both real or both empty (C10).                                   *)
(***************************************************************************)
OneSidedFront == (leftAudioBuffer[0] = nullptr) # (rightAudioBuffer[0] = nullptr)

C12_OneSidedFiringKeepsQueues ==
    /\ [][(isrPc' # isrPc /\ OneSidedFront) =>
            /\ leftAudioBuffer' = leftAudioBuffer
            /\ rightAudioBuffer' = rightAudioBuffer
            /\ released' = released]_vars
    /\ []((OneSidedFront /\ isrPc \in {"encode", "flush", "release"}) =>
            (isrLeft = silentAudio) # (isrRight = silentAudio))

\* a firing has returned: the lone left pair of blocks is still queued
C12_Witness ==
    /\ isrPc = "idle"
    /\ notifies = 1
    /\ leftAudioBuffer = [s \in Slots |-> LeftBlockOf(s + 1)]
    /\ rightAudioBuffer = [s \in Slots |-> nullptr]
    /\ encoded = <<LeftBlockOf(1)>>
    /\ released = <<>>

(***************************************************************************)
(* C13: a queue has no hole.  In every reachable state outside the         *)
(* critical section of update, on each channel, an empty slot 0 means an   *)
(* empty slot 1: a queue is empty, holds one block in slot 0, or is full.  *)
(***************************************************************************)
NoHole(q) == q[0] = nullptr => q[1] = nullptr

C13_NoHole == ~primask => (NoHole(leftAudioBuffer) /\ NoHole(rightAudioBuffer))

\* a firing has rotated full queues: the second pair is now in front, slot 1 empty
C13_Witness ==
    /\ ~primask
    /\ isrPc = "notify"
    /\ leftAudioBuffer = [s \in Slots |-> IF s = 0 THEN LeftBlockOf(2) ELSE nullptr]
    /\ rightAudioBuffer = [s \in Slots |-> IF s = 0 THEN RightBlockOf(2) ELSE nullptr]
    /\ ReleasedBlocks = <<LeftBlockOf(1), RightBlockOf(1)>>

(***************************************************************************)
(* C14: the queue update is atomic with respect to dmaISR.  No step of a   *)
(* firing is taken between __disable_irq and __enable_irq, so a firing     *)
(* never runs while update is at its switcheroos and every queue read of   *)
(* a firing sees both channels before or both after a submission; an       *)
(* interrupt raised inside the critical section stays pending until the    *)
(* section has ended and is then served.                                   *)
(***************************************************************************)
InCriticalSection == pc \in {"left", "right", "enable"}

\* the firing in progress, if any, is past its entry
Firing == isrPc # "idle"

C14_AtomicQueueUpdate ==
    /\ [](InCriticalSection => primask)
    /\ [](primask => ~Firing)
    /\ [](Firing => Lockstep)
    /\ [][primask => (isrPc' = isrPc /\ (irqPending => irqPending'))]_vars
    /\ [][(~Firing /\ Firing') => (~primask /\ ~InCriticalSection /\ irqPending)]_vars
    /\ (primask /\ irqPending) ~> (Firing /\ ~primask)

\* the engine has raised its interrupt while update is inside the critical
\* section, one channel of a submission stored and the other not yet
C14_Witness ==
    /\ pc = "right"
    /\ primask
    /\ irqPending
    /\ leftAudioBuffer[0] = LeftBlockOf(1)
    /\ rightAudioBuffer[0] = nullptr
    /\ rightAudio = RightBlockOf(1)

(***************************************************************************)
(* C15: every firing, whatever the queues hold, does its work in one       *)
(* order: it clears the channel's interrupt flag before any word of the    *)
(* transmit buffer is written, then encodes (256 words), then flushes the  *)
(* cache, then releases and rotates (when both blocks are real), and last  *)
(* of all calls update_all(), once.  Each effect is made only by the step  *)
(* at its place in that order, and that step makes it.                     *)
(***************************************************************************)
IsrOrder == <<"idle", "ack", "encode", "flush", "release", "notify">>

PlaceOf(p) == CHOOSE k \in 1..Len(IsrOrder) : IsrOrder[k] = p

\* a step taken by dmaISR() that moves its position
IsrStep == isrPc' # isrPc

C15_FiringOrder ==
    /\ [][IsrStep => PlaceOf(isrPc') = (PlaceOf(isrPc) % Len(IsrOrder)) + 1]_vars
    /\ [][(irqPending /\ ~irqPending') => (isrPc = "ack" /\ IsrStep)]_vars
    /\ [][(IsrStep /\ isrPc = "ack") => (~irqPending' /\ wlog' = <<>> /\ fifoTx' = fifoTx)]_vars
    /\ [][(fifoTx' # fifoTx \/ Len(wlog') > Len(wlog)) => isrPc = "encode"]_vars
    /\ [][(IsrStep /\ isrPc = "encode") => Len(wlog') = 2 * BlockSamples]_vars
    /\ [][(flushed' # flushed /\ flushed' # <<>>) => (isrPc = "flush" /\ IsrStep)]_vars
    /\ [][(IsrStep /\ isrPc = "flush") => flushed' # <<>>]_vars
    /\ [][((IsrStep \/ Firing) /\ (released' # released \/ queueVars' # queueVars)) =>
            (isrPc = "release" /\ IsrStep)]_vars
    /\ [][(IsrStep /\ isrPc = "release" /\ isrLeft # silentAudio /\ isrRight # silentAudio) =>
            (Len(released') = Len(released) + 2 /\ queueVars' # queueVars)]_vars
    /\ [][(notifies' # notifies /\ notifies' # 0) => (isrPc = "notify" /\ IsrStep)]_vars
    /\ [][(IsrStep /\ isrPc = "notify") => (notifies = 0 /\ notifies' = 1)]_vars
    /\ [](Firing => notifies = 0)

\* a firing on empty queues has returned: flag cleared, silence flushed, one notification
C15_Witness ==
    /\ isrPc = "idle"
    /\ notifies = 1
    /\ flushed # <<>>
    /\ ~irqPending
    /\ encoded = <<>>
    /\ released = <<>>
    /\ calls = 0
    /\ \A w \in 0..(BlockSamples * 2 - 1) : fifoTx[txOffset + w] = 0

(***************************************************************************)
(* C16: the source address of the engine stays inside fifoTx.  Started at  *)
(* the base of the buffer with the programmed TCD, SADDR is always a       *)
(* multiple of 8 bytes from the base and below base + 2048; it is back at  *)
(* the base after exactly 256 requests and not before; and a request       *)
(* raises the interrupt exactly when it is the 128th of a traversal (SADDR *)
(* reaches the midpoint) or the 256th (SADDR wraps to the base).           *)
(***************************************************************************)
BufferBytes == FifoWords * WordBytes

\* requests served since the start of the traversal in progress
RequestsServed == BITER - CITER

\* a request served by the engine
RequestStep == <<SADDR, CITER>>' # <<SADDR, CITER>>

C16_SourceStaysInBuffer ==
    /\ [](/\ SADDR >= fifoTxAddr
          /\ SADDR < fifoTxAddr + BufferBytes
          /\ CITER \in 1..256
          /\ SADDR = fifoTxAddr + 8 * RequestsServed)
    /\ [](SADDR = fifoTxAddr <=> RequestsServed = 0)
    /\ [][RequestStep =>
            /\ RequestsServed' = (RequestsServed + 1) % 256
            /\ (~irqPending /\ irqPending') <=> RequestsServed' \in {128, 0}
            /\ RequestsServed' = 128 <=> SADDR' = fifoTxAddr + 1024
            /\ RequestsServed' = 0 <=> SADDR' = fifoTxAddr]_vars

\* the 256th request of a traversal has wrapped the address and raised the interrupt
C16_Witness ==
    /\ SADDR = fifoTxAddr
    /\ CITER = BITER
    /\ irqPending
    /\ notifies = 1
    /\ txOffset = 0

(***************************************************************************)
(* C17: update leaks no block.  When an update() call returns, every block *)
(* receiveReadOnly gave to that call, and every block the call took out of *)
(* a queue, is held in a queue slot or has been released.                  *)
(***************************************************************************)
\* the return of update()
UpdateReturns == pc = "release" /\ pc' = "idle"

\* the blocks the call in progress answers for: those it received and those it displaced
OwnedByCall == {received[1], received[2], leftAudio, rightAudio} \ {nullptr}

C17_UpdateLeaksNoBlock ==
    [][UpdateReturns =>
         \A b \in OwnedByCall :
             \/ b \in InQueue(leftAudioBuffer') \cup InQueue(rightAudioBuffer')
             \/ b \in {released'[k][1] : k \in 1..Len(released')}]_vars

(***************************************************************************)
(* C18: no double release and no use after release.  In every reachable    *)
(* state: no block has been released twice; no released block is in a      *)
(* queue slot; the blocks a firing is encoding, has encoded and not yet    *)
(* released, have not been released; and a block update has taken out of   *)
(* a queue and not yet released is in no slot, so no firing can read it.   *)
(***************************************************************************)
Queued == InQueue(leftAudioBuffer) \cup InQueue(rightAudioBuffer)

C18_NoDoubleReleaseNoUseAfterRelease ==
    /\ \A j, k \in 1..Len(released) : j # k => released[j][1] # released[k][1]
    /\ ReleasedSet \cap Queued = {}
    /\ isrPc \in {"encode", "flush", "release"} => {isrLeft, isrRight} \cap ReleasedSet = {}
    /\ pc \in {"right", "enable", "release"} => leftAudio \notin Queued
    /\ pc \in {"enable", "release"} => rightAudio \notin Queued
    /\ silentAudio \notin ReleasedSet

\* the first pair released by update on overrun, the second by the firing
\* that encoded it, the third being encoded
C18_Witness ==
    /\ ReleasedBlocks = <<LeftBlockOf(1), RightBlockOf(1), LeftBlockOf(2), RightBlockOf(2)>>
    /\ released[1][2] = "update"
    /\ released[3][2] = "isr"
    /\ isrPc = "encode"
    /\ isrLeft = LeftBlockOf(3)
    /\ isrRight = RightBlockOf(3)

(***************************************************************************)
(* C19: every queued block is eventually released.  With the engine        *)
(* raising its interrupt for ever and the processor executing update and   *)
(* the handler (SpecLive), a block that is in a queue slot is later in the *)
(* release history: released by the firing that encoded it, or by update   *)
(* after an overrun displaced it.  A block placed into a slot is in the    *)
(* history accepted from then on and a released block stays released, so   *)
(* the property is: whenever some placed block is unreleased, a state      *)
(* follows in which every placed block has been released.                  *)
(***************************************************************************)
\* the blocks placed into a slot so far and not released
Unreleased == {accepted[k] : k \in 1..Len(accepted)} \ ReleasedSet

C19_QueuedEventuallyReleased ==
    /\ [](Queued \subseteq Unreleased)
    /\ (Unreleased # {}) ~> (Unreleased = {})

\* one pair released by update after an overrun, one by its firing, a third queued
C19_Witness ==
    /\ UpdateReleased = {LeftBlockOf(1), RightBlockOf(1)}
    /\ released[Len(released)] = <<RightBlockOf(2), "isr">>
    /\ leftAudioBuffer[0] = LeftBlockOf(3)
    /\ rightAudioBuffer[0] = RightBlockOf(3)
    /\ isrPc = "idle"
    /\ pc = "idle"

(***************************************************************************)
(* C20: a firing writes one half of fifoTx and flushes what it wrote.  The *)
(* word offset of a firing is 0 or 256; the stores of the firing are       *)
(* inside the 512 words of the buffer and, when spdifInterleave has        *)
(* returned, are exactly the 256 words fifoTx[offset .. offset + 255],     *)
(* each stored once, none in the other half; every other word of the       *)
(* buffer is as it was; and the byte range then flushed, 1024 bytes from   *)
(* the address of fifoTx[offset], is exactly the bytes of the words        *)
(* written.                                                                *)
(***************************************************************************)
WrittenWords == {wlog[k] : k \in 1..Len(wlog)}

\* the byte addresses of the words of fifoTx in the set ws
BytesOf(ws) == {fifoTxAddr + WordBytes * w + o : w \in ws, o \in 0..(WordBytes - 1)}

FlushedBytes == IF flushed = <<>> THEN {} ELSE flushed[1]..(flushed[1] + flushed[2] - 1)

C20_WritesOneHalfAndFlushesIt ==
    /\ [](Firing => txOffset \in {0, 256})
    /\ [](WrittenWords \subseteq 0..511)
    /\ [](WrittenWords \subseteq txOffset..(txOffset + 255))
    /\ [](isrPc \in {"flush", "release", "notify"} =>
            /\ WrittenWords = txOffset..(txOffset + 255)
            /\ Len(wlog) = 256)
    /\ [](isrPc \in {"release", "notify"} => FlushedBytes = BytesOf(WrittenWords))
    /\ [][\A w \in 0..511 : fifoTx'[w] # fifoTx[w] =>
              (isrPc = "encode" /\ w \in txOffset..(txOffset + 255))]_vars

\* the upper half has been written with a real pair and flushed
C20_Witness ==
    /\ isrPc = "release"
    /\ txOffset = 256
    /\ flushed = <<fifoTxAddr + 1024, 1024>>
    /\ isrLeft = LeftBlockOf(1)
    /\ fifoTx[256] = data(LeftBlockOf(1), 0) * 256
    /\ fifoTx[0] = 0
    /\ fifoTx[255] = 0
=============================================================================
